---- MODULE Spec2Model ----
(***************************************************************************)
(* Playback controller of Localify (MusicPlayer/core/audio_player.py):     *)
(* the AudioPlayer object, the settings store it writes through to, and    *)
(* the pygame.mixer.music device it drives, and the equalizer engine       *)
(* (MusicPlayer/core/audio_effects.py) with its cache of shaped files.     *)
(*                                                                         *)
(* Every handler of AudioPlayer is a function from the controller's state  *)
(* (a record of its fields) to its state after the call, so that handlers  *)
(* calling handlers (load_playlist -> play_track, _poll -> next_track ->   *)
(* play_track, _poll -> _handle_crossfade) compose as they do in the code. *)
(* An action applies one handler, with the handler's inputs and the        *)
(* device's answer drawn from small sets.                                  *)
(*                                                                         *)
(* Times are integers in milliseconds (the code's float seconds x 1000).   *)
(* Volumes are integers in 1/10000 (0.8 is 8000).  List indexes are the    *)
(* code's 0-based ones; a TLA+ sequence holds element i at position i+1.   *)
(***************************************************************************)
EXTENDS Integers, Sequences, FiniteSets, TLC

\* ---------------------------------------------------------------- bounds
NumPaths == 2       \* audio files on disk
MaxSteps == 1       \* length of every file, in device clock steps
MaxOvershoot == 0   \* how far next_track may push the index past the queue
MaxClock == 1       \* the wall clock and the files' modification times: 0 .. MaxClock

\* ------------------------------------------------------ program constants
TimerIntervalMs == 250
HistoryMaxLen == 50
CrossfadeMaxSeconds == 10
FadeInLeadMs == 500
DefaultVolume == 8000
DefaultCrossfadeMs == 3000
VolumeOne == 10000

\* The device clock is observed every fourth timer tick.
StepMs == 4 * TimerIntervalMs

Max(a, b) == IF a >= b THEN a ELSE b
Min(a, b) == IF a <= b THEN a ELSE b

\* ---------------------------------------------------------------- tracks
Paths == 1 .. NumPaths
NoPath == 0

\* TrackItem (with the TrackMetadata fields the controller reads).  A
\* dataclass: two TrackItems are equal when all their fields are.
TrackItem(p, g) == [path |-> p, duration_seconds |-> MaxSteps * StepMs, normalized_gain_db |-> g]

\* current_track = None
None == [path |-> NoPath, duration_seconds |-> 0, normalized_gain_db |-> 0]

\* The ReplayGain tag a retagged file gets (dB); 0 stands for no tag.
Gains == {0, -6}

\* The ReplayGain tag a file may carry when the library is first scanned.
LibraryGains == Gains \cup {40}

\* ------------------------------------------------------ python sequences
Range(seq) == {seq[i] : i \in 1 .. Len(seq)}
Contains(seq, x) == \E i \in 1 .. Len(seq) : seq[i] = x

\* list.index(x): the first 0-based position of x
IndexOf(seq, x) == (CHOOSE i \in 1 .. Len(seq) : seq[i] = x /\ \A j \in 1 .. i - 1 : seq[j] # x) - 1

\* del seq[i], 0-based
RemoveAt(seq, i) == SubSeq(seq, 1, i) \o SubSeq(seq, i + 2, Len(seq))

\* list.remove(x) / deque.remove(x), x present: drops the first occurrence
RemoveFirst(seq, x) == RemoveAt(seq, IndexOf(seq, x))

\* list.insert(i, x) for i >= 0: positions past the end append
InsertAt(seq, i, x) ==
    LET k == Min(i, Len(seq))
    IN SubSeq(seq, 1, k) \o <<x>> \o SubSeq(seq, k + 1, Len(seq))

\* ----------------------------------------------------------------- state
VARIABLES
    queue,              \* self._queue
    history,            \* self._history, a deque(maxlen=50)
    current_index,      \* self._current_index
    current_track,      \* self._current_track, or None
    current_offset,     \* self._current_offset (ms)
    active_audio_path,  \* self._active_audio_path, or NoPath
    crossfade_pending,  \* self._crossfade_pending
    state,              \* self._state
    playback_state,     \* self._playback_state, the cached PlaybackState
    settings,           \* the SettingsManager's data: playback, track_positions
    mixer,              \* pygame.mixer.music: the audio output device
    tags,               \* the files on disk: the ReplayGain tag of each path
    sources,            \* the files on disk: what each is, and its st_mtime
    eq_cache,           \* the files of EqualizerEngine._cache_dir
    clock,              \* the wall clock, which stamps the files written
    encoder,            \* whether the encoder behind AudioSegment.export works
    call_stack,         \* the GUI thread: the handlers it is inside of, outermost first
    posted,             \* the events waiting in the GUI thread's event queue
    disk,               \* the settings file and its temporary file
    lock,               \* SettingsManager._lock: the thread that holds it
    threads             \* the threads that call the settings store: where each is

vars == <<queue, history, current_index, current_track, current_offset, active_audio_path,
          crossfade_pending, state, playback_state, settings, mixer, tags,
          sources, eq_cache, clock, encoder, call_stack, posted, disk, lock, threads>>

\* The controller, its store and its device as one value: what a handler
\* reads and what it returns.  A handler's value also carries what the
\* call did besides changing the state: events, the signals it emitted in
\* order and the exception it let escape to its caller; devlog, the calls
\* it made to the device in order.
Self ==
    [queue |-> queue, history |-> history, current_index |-> current_index,
     current_track |-> current_track, current_offset |-> current_offset,
     active_audio_path |-> active_audio_path, crossfade_pending |-> crossfade_pending,
     state |-> state, playback_state |-> playback_state, settings |-> settings,
     mixer |-> mixer, sources |-> sources, eq_cache |-> eq_cache, clock |-> clock,
     encoder |-> encoder, disk |-> disk, events |-> <<>>, devlog |-> <<>>]

\* The state after a handler returned s.
Becomes(s) ==
    /\ queue' = s.queue
    /\ history' = s.history
    /\ current_index' = s.current_index
    /\ current_track' = s.current_track
    /\ current_offset' = s.current_offset
    /\ active_audio_path' = s.active_audio_path
    /\ crossfade_pending' = s.crossfade_pending
    /\ state' = s.state
    /\ playback_state' = s.playback_state
    /\ settings' = s.settings
    /\ mixer' = s.mixer
    /\ eq_cache' = s.eq_cache
    /\ disk' = s.disk

\* ---------------------------------------------------------------- signals
\* pyqtSignal.emit: position_changed and queue_updated are recorded without
\* their payload (the position pair, the copy of the queue).
Signal(name, track, text) == [signal |-> name, track |-> track, text |-> text]
emit(s, sig) == [s EXCEPT !.events = Append(@, sig)]
position_changed == Signal("position_changed", None, "")
queue_updated == Signal("queue_updated", None, "")
track_changed(track) == Signal("track_changed", track, "")
state_changed(text) == Signal("state_changed", None, text)

\* An exception no handler catches: the handler ends where it was raised.
raise(s, exception) == emit(s, Signal("raise", None, exception))

\* ------------------------------------------------------------ the settings
\* PlaybackState(): the defaults of a fresh settings file
DefaultPlaybackState ==
    [volume |-> DefaultVolume, is_muted |-> FALSE, shuffle_enabled |-> FALSE,
     repeat_mode |-> "off", crossfade_seconds |-> DefaultCrossfadeMs,
     normalization_enabled |-> TRUE, eq_preset |-> "Flat"]

\* A store that answers 0.0 for every track
get_track_position_forgotten(s, path) == 0

\* SettingsManager.get_track_position: 0.0 for a track never remembered
get_track_position(s, path) == s.settings.track_positions[path]

\* DEFAULT_SETTINGS: the data of a fresh settings file
DefaultSettings == [playback |-> DefaultPlaybackState, track_positions |-> [p \in Paths |-> 0]]

\* self._settings_path
settings_path == "settings.json"

\* A save that writes in place: the temporary path is the settings path
temp_path_in_place == "settings.json"

\* temp_path = self._settings_path.with_suffix(".tmp")
temp_path == "settings.tmp"

\* A file on disk: the JSON document it holds, whole or cut short; or no file
File(document, complete) == [exists |-> TRUE, complete |-> complete, document |-> document]
NoFile == [exists |-> FALSE, complete |-> FALSE, document |-> DefaultSettings]

\* Path.write_text(text), in its two steps: the file is opened (created, or
\* emptied), then the text is written and the file closed
open_file(d, path, document) == [d EXCEPT ![path] = File(document, FALSE)]
write_file(d, path, document) == [d EXCEPT ![path] = File(document, TRUE)]

\* Path.replace(target): an atomic rename over the target (of a file that
\* is not there: FileNotFoundError, nothing is renamed)
replace(d, path, target) ==
    IF path = target \/ ~d[path].exists THEN d
    ELSE [d EXCEPT ![target] = d[path], ![path] = NoFile]

\* SettingsManager._load: the data a starting process reads from the file
load(d) ==
    IF d[settings_path].exists /\ d[settings_path].complete
    THEN d[settings_path].document ELSE DefaultSettings

\* The threads of the process that call the store
Threads == {"gui", "worker"}
NoThread == "none"

\* A thread outside the store
Outside ==
    [pc |-> "outside", call |-> "none", key |-> "none", flag |-> FALSE, path |-> NoPath,
     position |-> 0, playback |-> DefaultPlaybackState, document |-> DefaultSettings]

\* A lock that never makes a thread wait
may_acquire_always(owner, t) == TRUE

\* with self._lock: a threading.RLock is acquired by a thread when no
\* other thread holds it
may_acquire(owner, t) == owner \in {NoThread, t}

\* SettingsManager._save_locked, run to its end
save_locked(s) ==
    [s EXCEPT !.disk = replace(write_file(open_file(@, temp_path, s.settings),
                                          temp_path, s.settings),
                               temp_path, settings_path)]

\* SettingsManager.remember_track_position
remember_track_position(s, path, position) ==
    save_locked([s EXCEPT !.settings.track_positions[path] = position])

\* SettingsManager.update_playback_state(**{key: value}) as a collaborator
\* other than the controller calls it: the store is written, nothing else
write_playback_state(s, key, value) ==
    save_locked([s EXCEPT !.settings.playback[key] = value])

\* A write-through that changes the one key in the store and in the cached
\* copy, each as it was
update_playback_state_key_only(s, key, value) ==
    save_locked([s EXCEPT !.settings.playback[key] = value, !.playback_state[key] = value])

\* SettingsManager.update_playback_state(**{key: value}) and the controller's
\* self._playback_state = <what it returned>
update_playback_state(s, key, value) ==
    LET playback == [s.settings.playback EXCEPT ![key] = value]
    IN save_locked([s EXCEPT !.settings.playback = playback, !.playback_state = playback])

\* -------------------------------------------------------------- the device
\* pygame.mixer.music as the controller uses it.  loaded: the stream held;
\* status: playing, paused or idle (get_busy() is true only while playing);
\* fading: a fadeout() is running on the playing stream; pos: get_pos(),
\* the milliseconds played since play(), -1 when nothing has been started
\* or the stream has ended or been stopped; volume: the last set_volume().
\* load() and play() may raise pygame.error: the action's `dev` is the
\* device's answer to the handler's load-and-play: "ok", "load_error"
\* (load raised) or "play_error" (load succeeded, play raised).
DevAnswers == {"ok", "load_error", "play_error"}

Call(cmd, path, start, ms, volume, ok) ==
    [cmd |-> cmd, path |-> path, start |-> start, ms |-> ms, volume |-> volume, ok |-> ok]
sent(s, call) == [s EXCEPT !.devlog = Append(@, call)]

\* pygame.mixer.get_init(): the mixer is initialised in __init__ and never quit
get_init(s) == s.mixer.init

\* A get_busy() that is also true while the stream is paused (pygame 1)
get_busy_while_paused(s) == s.mixer.status \in {"playing", "paused"}

\* pygame.mixer.music.get_busy()
get_busy(s) == s.mixer.status = "playing"

\* pygame.mixer.music.get_pos()
get_pos(s) == s.mixer.pos

\* get_pos() as every reader but _poll takes it: if pos_ms < 0: pos_ms = 0
get_pos_clamped(s) == IF get_pos(s) < 0 THEN 0 ELSE get_pos(s)

\* pygame.mixer.music.load(path) that succeeds: the stream held before is
\* freed (halted) and replaced
mixer_load(s, path) ==
    sent([s EXCEPT !.mixer.loaded = path, !.mixer.status = "idle",
                   !.mixer.fading = FALSE, !.mixer.pos = -1],
         Call("load", path, 0, 0, 0, TRUE))

\* pygame.mixer.music.load(path) that raises: the device keeps what it had
mixer_load_raises(s, path) == sent(s, Call("load", path, 0, 0, 0, FALSE))

\* pygame.mixer.music.play(loops=0, start=start, fade_ms=fade_ms) that succeeds
mixer_play(s, start, fade_ms) ==
    sent([s EXCEPT !.mixer.status = "playing", !.mixer.fading = FALSE, !.mixer.pos = 0,
                   !.mixer.start = start],
         Call("play", s.mixer.loaded, start, fade_ms, 0, TRUE))

\* pygame.mixer.music.play(...) that raises: the loaded stream is not started
mixer_play_raises(s, start, fade_ms) ==
    sent(s, Call("play", s.mixer.loaded, start, fade_ms, 0, FALSE))

\* pygame.mixer.music.pause(): halts a playing stream where it is
mixer_pause(s) ==
    sent([s EXCEPT !.mixer.status = IF @ = "playing" THEN "paused" ELSE @],
         Call("pause", s.mixer.loaded, 0, 0, 0, TRUE))

\* pygame.mixer.music.unpause(): resumes a paused stream, nothing else
mixer_unpause(s) ==
    sent([s EXCEPT !.mixer.status = IF @ = "paused" THEN "playing" ELSE @],
         Call("unpause", s.mixer.loaded, 0, 0, 0, TRUE))

\* pygame.mixer.music.stop()
mixer_stop(s) ==
    sent([s EXCEPT !.mixer.status = "idle", !.mixer.fading = FALSE, !.mixer.pos = -1],
         Call("stop", s.mixer.loaded, 0, 0, 0, TRUE))

\* pygame.mixer.music.fadeout(ms): the playing stream fades and then stops
mixer_fadeout(s, ms) ==
    sent([s EXCEPT !.mixer.fading = (s.mixer.status # "idle")],
         Call("fadeout", s.mixer.loaded, 0, ms, 0, TRUE))

\* AudioPlayer._set_mixer_volume
set_mixer_volume(s, volume) ==
    LET v == Max(0, Min(volume, VolumeOne))
    IN sent([s EXCEPT !.mixer.volume = v], Call("set_volume", s.mixer.loaded, 0, 0, v, TRUE))

\* AudioPlayer._apply_volume
apply_volume(s, volume) ==
    IF ~get_init(s) THEN s
    ELSE set_mixer_volume(s, IF s.playback_state.is_muted THEN 0 ELSE volume)

\* math.pow(10.0, gain_db / 20.0), in 1/10000, for the gains of Tracks
GainFactor(gain_db) ==
    CASE gain_db = -6 -> 5012
      [] gain_db = 0 -> 10000
      [] gain_db = 40 -> 1000000

\* base_volume * adjustment, in 1/10000 (the whole and the fractional part
\* of the factor are multiplied apart to stay within 32 bits)
Scaled(base_volume, factor) ==
    base_volume * (factor \div 10000) + (base_volume * (factor % 10000)) \div 10000

\* The normalized volume without its clamp: base_volume * adjustment
compute_normalized_volume_unclamped(s, track) ==
    LET base_volume == IF s.playback_state.is_muted THEN 0 ELSE s.playback_state.volume
    IN IF ~s.playback_state.normalization_enabled \/ track.normalized_gain_db = 0
       THEN base_volume
       ELSE Scaled(base_volume, GainFactor(track.normalized_gain_db))

\* AudioPlayer._compute_normalized_volume
compute_normalized_volume(s, track) ==
    LET base_volume == IF s.playback_state.is_muted THEN 0 ELSE s.playback_state.volume
    IN IF ~s.playback_state.normalization_enabled \/ track.normalized_gain_db = 0
       THEN base_volume
       ELSE Max(0, Min(Scaled(base_volume, GainFactor(track.normalized_gain_db)), VolumeOne))

\* AudioPlayer._init_mixer / _ensure_mixer
ensure_mixer(s) == IF get_init(s) THEN s ELSE [s EXCEPT !.mixer.init = TRUE]

\* ------------------------------------------------------------ the equalizer
\* EqualizerEngine._preset_functions: the names of the presets
PresetNames == <<"Flat", "Bass Boost", "Treble Boost", "Vocal", "Soft">>
Presets == {PresetNames[i] : i \in 1 .. Len(PresetNames)}
ShapedPresets == Presets \ {"Flat"}

\* A file on disk is audio, unreadable (its bytes cannot be read or decoded)
\* or missing.
FileKinds == {"audio", "unreadable", "missing"}

\* A cache key that leaves the modification time out of the signature
cache_key_without_mtime(s, source, preset) ==
    ((source - 1) * (MaxClock + 1)) * Len(PresetNames)
        + (CHOOSE i \in 1 .. Len(PresetNames) : PresetNames[i] = preset)

\* EqualizerEngine._cache_key, of a source that exists: the md5 digest of
\* path::st_mtime::preset as a number, one for every signature (md5 is taken
\* as free of collisions)
cache_key(s, source, preset) ==
    ((source - 1) * (MaxClock + 1) + s.sources[source].st_mtime) * Len(PresetNames)
        + (CHOOSE i \in 1 .. Len(PresetNames) : PresetNames[i] = preset)

\* cached_file = self._cache_dir / cache_key: a path that is no source's
cached_file(key) == NumPaths + key

\* The file of the cache at a path, or none
Cached(s, file) == {a \in s.eq_cache : a.file = file}

\* A cached file passes for current only when it is newer than its source
is_current_strict(artifact_mtime, source_mtime) == artifact_mtime > source_mtime

\* cached_file.stat().st_mtime >= source.stat().st_mtime
is_current(artifact_mtime, source_mtime) == artifact_mtime >= source_mtime

\* What prepare_track gives its caller: the engine's state after the call,
\* the path returned, whether a file was exported to the cache, and the
\* exception raised ("" for none).
Prepared(s, path, exported, raises) ==
    [self |-> s, path |-> path, exported |-> exported, raises |-> raises]

\* AudioSegment.from_file(source) ... processed.export(cached_file, ...):
\* the file is opened for writing (created, or emptied) and the encoded
\* stream then written to it, stamped with the time of writing; an encoder
\* that fails leaves it empty.  shaped_from tells which contents of the
\* source were read: those it had under its modification time then.
export(s, source, file, complete) ==
    [s EXCEPT !.eq_cache = (@ \ Cached(s, file))
                  \cup {[file |-> file, st_mtime |-> s.clock, complete |-> complete,
                         shaped_from |-> s.sources[source].st_mtime]}]

\* EqualizerEngine.prepare_track
prepare_track(s, source, preset) ==
    LET known == IF preset \in Presets THEN preset ELSE "Flat"
        file == cached_file(cache_key(s, source, known))
    IN IF known = "Flat" THEN Prepared(s, source, FALSE, "")
       ELSE IF s.sources[source].kind = "missing"
       THEN Prepared(s, source, FALSE, "FileNotFoundError")
       ELSE IF \E a \in Cached(s, file) : is_current(a.st_mtime, s.sources[source].st_mtime)
       THEN Prepared(s, file, FALSE, "")
       ELSE IF s.sources[source].kind = "unreadable" THEN Prepared(s, source, FALSE, "")
       ELSE IF ~s.encoder THEN Prepared(export(s, source, file, FALSE), source, FALSE, "")
       ELSE Prepared(export(s, source, file, TRUE), file, TRUE, "")

\* pygame.mixer.music.load of a file the encoder left empty raises
\* pygame.error whatever the device would answer to another file.
answer(s, path, dev) ==
    IF \E a \in Cached(s, path) : ~a.complete THEN "load_error" ELSE dev

\* ------------------------------------------------------------ the handlers
\* deque(maxlen=50).append: a full deque drops its oldest entry
deque_append(h, track) ==
    IF Len(h) >= HistoryMaxLen THEN Append(Tail(h), track) ELSE Append(h, track)

\* try: self._history.remove(track) / except ValueError: pass; then
\* self._history.append(track)
history_push(h, track) ==
    deque_append(IF Contains(h, track) THEN RemoveFirst(h, track) ELSE h, track)

\* AudioPlayer._update_state
update_state(s, new_state) ==
    LET s1 == emit([s EXCEPT !.state = new_state], state_changed(new_state))
    IN IF s1.current_track # None /\ new_state \in {"playing", "paused"}
       THEN remember_track_position(s1, s1.current_track.path,
                                    s1.current_offset + get_pos_clamped(s1))
       ELSE s1

\* fade_in_ms = int(max(crossfade_seconds - 0.5, 0) * 1000)
fade_in_ms(s) == Max(s.playback_state.crossfade_seconds - FadeInLeadMs, 0)

\* AudioPlayer.play_track, after the queue bookkeeping: the try block
start_playback(s, track, start_position, force_restart, dev) ==
    LET prepared == prepare_track(s, track.path, s.playback_state.eq_preset)
        playback_path == prepared.path
        s1 == [prepared.self EXCEPT !.active_audio_path = playback_path]
        s2 == IF force_restart THEN remember_track_position(s1, track.path, 0) ELSE s1
        s3 == mixer_load(s2, playback_path)
        s4 == mixer_play(s3, start_position, fade_in_ms(s3))
        s5 == set_mixer_volume(s4, compute_normalized_volume(s4, track))
        s6 == [s5 EXCEPT !.current_track = track,
                         !.current_offset = start_position,
                         !.crossfade_pending = FALSE,
                         !.history = history_push(@, track)]
        device == answer(s2, playback_path, dev)
    IN CASE prepared.raises # "" -> raise(prepared.self, prepared.raises)
         [] device = "load_error" -> update_state(mixer_load_raises(s2, playback_path), "error")
         [] device = "play_error" -> update_state(mixer_play_raises(s3, start_position, fade_in_ms(s3)), "error")
         [] OTHER -> update_state(emit(s6, track_changed(track)), "playing")

\* AudioPlayer.play_track
play_track(s, track, start_position, force_restart, dev) ==
    LET s0 == ensure_mixer(s)
        saved_position == get_track_position(s0, track.path)
        start == IF start_position <= 0 /\ ~force_restart /\ saved_position > 0
                 THEN saved_position ELSE start_position
        s1 == IF ~Contains(s0.queue, track)
              THEN [emit([s0 EXCEPT !.queue = Append(@, track)], queue_updated)
                       EXCEPT !.current_index = Len(s0.queue)]
              ELSE [s0 EXCEPT !.current_index = IndexOf(s0.queue, track)]
    IN start_playback(s1, track, start, force_restart, dev)

\* The clamp with min and max exchanged: min(max(start_index, len - 1), 0)
clamp_index_exchanged(start_index, length) == Min(Max(start_index, length - 1), 0)

\* self._current_index = max(min(start_index, len(self._queue) - 1), 0)
clamp_index(start_index, length) == Max(Min(start_index, length - 1), 0)

\* AudioPlayer.load_playlist
load_playlist(s, tracks, start_index, dev) ==
    IF tracks = <<>> THEN s
    ELSE LET s1 == emit([s EXCEPT !.queue = tracks], queue_updated)
             s2 == [s1 EXCEPT !.current_index = clamp_index(start_index, Len(tracks))]
             track == s2.queue[s2.current_index + 1]
             last_position == get_track_position(s2, track.path)
         IN play_track(s2, track, last_position, FALSE, dev)

\* AudioPlayer.toggle_play_pause
toggle_play_pause(s) ==
    IF ~get_init(s) THEN s
    ELSE IF get_busy(s) THEN update_state(mixer_pause(s), "paused")
    ELSE update_state(mixer_unpause(s), "playing")

\* A stop that halts the device and leaves the current track in place
stop_keeps_track(s) ==
    IF ~get_init(s) THEN s
    ELSE emit(update_state(mixer_stop(s), "stopped"), track_changed(None))

\* AudioPlayer.stop
stop(s) ==
    IF ~get_init(s) THEN s
    ELSE LET s1 == [mixer_stop(s) EXCEPT !.current_track = None, !.active_audio_path = NoPath]
         IN emit(update_state(s1, "stopped"), track_changed(None))

\* A next_track that starts over past the end under every repeat mode
repeat_wraps_always(s) == TRUE

\* if self._playback_state.repeat_mode == "all": past the end, start over
repeat_wraps(s) == s.playback_state.repeat_mode = "all"

\* AudioPlayer.next_track; rnd is what random.randint(0, len - 1) returns
next_track(s, dev, rnd) ==
    IF s.queue = <<>> THEN s
    ELSE IF s.playback_state.shuffle_enabled
    THEN play_track([s EXCEPT !.current_index = rnd], s.queue[rnd + 1], 0, FALSE, dev)
    ELSE LET s1 == [s EXCEPT !.current_index = @ + 1]
         IN IF s1.current_index >= Len(s1.queue)
            THEN IF repeat_wraps(s1)
                 THEN play_track([s1 EXCEPT !.current_index = 0], s1.queue[1], 0, FALSE, dev)
                 ELSE stop(s1)
            ELSE play_track(s1, s1.queue[s1.current_index + 1], 0, FALSE, dev)

\* self._current_index -= 1 and the wrap of previous_track
previous_index(s) ==
    IF s.current_index - 1 < 0
    THEN IF s.playback_state.repeat_mode = "all" THEN Len(s.queue) - 1 ELSE 0
    ELSE s.current_index - 1

\* A pop that leaves the deque as it is
deque_pop_nothing(h) == h

\* self._history.pop(): drops the newest entry
deque_pop(h) == SubSeq(h, 1, Len(h) - 1)

\* AudioPlayer.previous_track
previous_track(s, dev) ==
    IF s.queue = <<>> THEN s
    ELSE LET popped == [s EXCEPT !.history = deque_pop(@)]
             track == popped.history[Len(popped.history)]
             popped2 == [popped EXCEPT !.history = deque_pop(@)]
             s1 == [(IF s.playback_state.shuffle_enabled /\ s.history # <<>> THEN popped ELSE s)
                       EXCEPT !.current_index = previous_index(s)]
         IN IF s.playback_state.shuffle_enabled /\ s.history # <<>> /\ popped.history # <<>>
            THEN play_track(popped2, track, 0, FALSE, dev)
            ELSE IF s1.current_index >= Len(s1.queue)
            THEN raise(s1, "IndexError")
            ELSE play_track(s1, s1.queue[s1.current_index + 1], 0, FALSE, dev)

\* AudioPlayer.seek
seek(s, position_seconds, dev) ==
    IF s.current_track = None THEN s
    ELSE play_track(s, s.current_track,
                    Max(0, Min(position_seconds, s.current_track.duration_seconds)), FALSE, dev)

\* AudioPlayer.set_shuffle
set_shuffle(s, enabled) == update_playback_state(s, "shuffle_enabled", enabled)

RepeatModes == {"off", "one", "all"}

\* A set_repeat_mode that stores whatever it is given
set_repeat_mode_unchecked(s, mode) == update_playback_state(s, "repeat_mode", mode)

\* AudioPlayer.set_repeat_mode
set_repeat_mode(s, mode) ==
    IF mode \notin RepeatModes THEN raise(s, "ValueError")
    ELSE update_playback_state(s, "repeat_mode", mode)

\* AudioPlayer.set_crossfade
set_crossfade(s, seconds) ==
    update_playback_state(s, "crossfade_seconds",
                          Max(0, Min(seconds, CrossfadeMaxSeconds * 1000)))

\* AudioPlayer.set_volume
set_volume(s, volume) ==
    LET v == Max(0, Min(volume, VolumeOne))
    IN apply_volume(update_playback_state(s, "volume", v), v)

\* A mute that is a volume of zero: muting overwrites the base volume
set_mute_as_zero_volume(s, muted) ==
    LET s1 == IF muted THEN update_playback_state(s, "volume", 0) ELSE s
        s2 == update_playback_state(s1, "is_muted", muted)
    IN apply_volume(s2, s2.playback_state.volume)

\* AudioPlayer.set_mute
set_mute(s, muted) ==
    LET s1 == update_playback_state(s, "is_muted", muted)
    IN apply_volume(s1, s1.playback_state.volume)

\* AudioPlayer.toggle_mute
toggle_mute(s) == set_mute(s, ~s.playback_state.is_muted)

\* AudioPlayer.set_normalization
set_normalization(s, enabled) ==
    LET s1 == update_playback_state(s, "normalization_enabled", enabled)
    IN IF s1.current_track # None THEN apply_volume(s1, s1.playback_state.volume) ELSE s1

\* AudioPlayer.set_eq_preset
set_eq_preset(s, preset, dev) ==
    LET s1 == update_playback_state(s, "eq_preset", preset)
    IN IF s1.current_track # None
       THEN play_track(s1, s1.current_track, s1.current_offset + get_pos_clamped(s1), FALSE, dev)
       ELSE s1

\* AudioPlayer.enqueue_next
enqueue_next(s, track, dev) ==
    LET s1 == IF Contains(s.queue, track) THEN [s EXCEPT !.queue = RemoveFirst(@, track)] ELSE s
        insert_index == IF s1.current_index >= 0 THEN s1.current_index + 1 ELSE 0
        s2 == [s1 EXCEPT !.queue = InsertAt(@, insert_index, track)]
    IN IF s2.current_index = -1
       THEN play_track([s2 EXCEPT !.current_index = 0], track, 0, FALSE, dev)
       ELSE emit(s2, queue_updated)

\* AudioPlayer.append_to_queue
append_to_queue(s, track) ==
    LET s1 == IF Contains(s.queue, track) THEN [s EXCEPT !.queue = RemoveFirst(@, track)] ELSE s
    IN emit([s1 EXCEPT !.queue = Append(@, track)], queue_updated)

\* A handoff that repeat mode "one" does not hold back
crossfade_never_suppressed(s) == FALSE

\* if self._playback_state.repeat_mode == "one": return
crossfade_suppressed(s) == s.playback_state.repeat_mode = "one"

\* AudioPlayer._handle_crossfade; rnd is what random.randint returns
handle_crossfade(s, dev, rnd) ==
    LET wrapped == s.current_index + 1 >= Len(s.queue)
        next_index == IF s.playback_state.shuffle_enabled THEN rnd
                      ELSE IF wrapped THEN 0 ELSE s.current_index + 1
        next_item == s.queue[next_index + 1]
        fade_ms == s.playback_state.crossfade_seconds
        s1 == mixer_fadeout(s, fade_ms)
        prepared == prepare_track(s1, next_item.path, s1.playback_state.eq_preset)
        playback_path == prepared.path
        s2 == [prepared.self EXCEPT !.active_audio_path = playback_path]
        s3 == mixer_load(s2, playback_path)
        s4 == mixer_play(s3, 0, fade_ms)
        s5 == [s4 EXCEPT !.current_offset = 0, !.current_track = next_item,
                         !.current_index = next_index]
        s6 == set_mixer_volume(s5, compute_normalized_volume(s5, next_item))
        s7 == emit([s6 EXCEPT !.history = history_push(@, next_item)], track_changed(next_item))
    IN IF crossfade_suppressed(s) THEN s
       ELSE IF ~s.playback_state.shuffle_enabled /\ wrapped /\ s.playback_state.repeat_mode # "all"
       THEN s
       ELSE CASE prepared.raises # "" -> raise(prepared.self, prepared.raises)
              [] answer(s2, playback_path, dev) = "load_error" ->
                    [mixer_load_raises(s2, playback_path) EXCEPT !.crossfade_pending = FALSE]
              [] answer(s2, playback_path, dev) = "play_error" ->
                    [mixer_play_raises(s3, 0, fade_ms) EXCEPT !.crossfade_pending = FALSE]
              [] OTHER -> [s7 EXCEPT !.crossfade_pending = FALSE]

\* The trigger with a strict comparison: duration - current_pos < crossfade_seconds
crossfade_due_strict(s, duration, current_pos) ==
    /\ ~s.crossfade_pending
    /\ s.playback_state.crossfade_seconds > 0
    /\ duration - current_pos < s.playback_state.crossfade_seconds

\* if not self._crossfade_pending and crossfade_seconds > 0:
\*     if duration - current_pos <= crossfade_seconds:
crossfade_due(s, duration, current_pos) ==
    /\ ~s.crossfade_pending
    /\ s.playback_state.crossfade_seconds > 0
    /\ duration - current_pos <= s.playback_state.crossfade_seconds

\* AudioPlayer._poll, the timer's handler
poll(s, dev, rnd) ==
    IF ~get_init(s) \/ s.current_track = None THEN s
    ELSE LET current_pos == s.current_offset + get_pos(s)
             duration == Max(s.current_track.duration_seconds, current_pos)
             s1 == emit(s, position_changed)
             s2 == remember_track_position(s1, s.current_track.path, current_pos)
         IN IF get_busy(s)
            THEN IF crossfade_due(s2, duration, current_pos)
                 THEN handle_crossfade([s2 EXCEPT !.crossfade_pending = TRUE], dev, rnd)
                 ELSE s2
            ELSE IF s.state = "paused" THEN s1
            ELSE IF s1.playback_state.repeat_mode = "one"
                 THEN play_track(s1, s1.current_track, 0, TRUE, dev)
                 ELSE next_track(s1, dev, rnd)

\* ------------------------------------------------------------- the actions
\* AudioPlayer.__init__ on a fresh settings file, over untagged files
Init ==
    /\ queue = <<>>
    /\ history = <<>>
    /\ current_index = -1
    /\ current_track = None
    /\ current_offset = 0
    /\ active_audio_path = NoPath
    /\ crossfade_pending = FALSE
    /\ state = "stopped"
    /\ playback_state = DefaultPlaybackState
    /\ settings = DefaultSettings
    /\ mixer = [init |-> TRUE, loaded |-> NoPath, status |-> "idle", fading |-> FALSE,
                pos |-> -1, start |-> 0, volume |-> DefaultVolume]
    /\ tags = [p \in Paths |-> 0]
    /\ sources = [p \in Paths |-> [kind |-> "audio", st_mtime |-> 0]]
    /\ eq_cache = {}
    /\ clock = 0
    /\ encoder = TRUE
    /\ call_stack = <<>>
    /\ posted = {}
    /\ disk = [path \in {settings_path, temp_path} |->
                   IF path = settings_path THEN File(DefaultSettings, TRUE) ELSE NoFile]
    /\ lock = NoThread
    /\ threads = [t \in Threads |-> Outside]

\* FolderManager._scan_folder, for one file: the TrackItem of a path as a
\* scan finds it now
Scanned(p) == TrackItem(p, tags[p])

\* FolderManager._scan_folder: FolderPlaylist.tracks, one TrackItem per file
\* in sorted path order.  The folders are those of the files 1 .. k.
ScannedFolder(k) == [i \in 1 .. k |-> Scanned(i)]
Playlists == {ScannedFolder(k) : k \in 0 .. NumPaths}

\* The tracks the window offers to play or queue: the rows of the latest
\* scan (MainWindow._show_track_context_menu) and the entries of the queue
\* (MainWindow._play_queue_track).
Offered == {Scanned(p) : p \in Paths} \cup Range(queue)

\* The inputs the callers draw from.
StartIndexes(tracks) == -1 .. Len(tracks)
SeekPositions == {k * StepMs : k \in 0 .. MaxSteps}
CrossfadeInputs == {0, FadeInLeadMs, StepMs}
VolumeInputs == {0 - VolumeOne \div 2, 0, VolumeOne \div 2, VolumeOne + VolumeOne \div 2}
RepeatInputs == RepeatModes \cup {"shuffle"}
RandomIndexes(s) == 0 .. Max(Len(s.queue) - 1, 0)
PresetInputs == {"Flat", "Bass Boost", "Loudness"}

\* What a handler leaves alone: the files on disk, the clock, the encoder.
\* The handler is called from the event loop and runs to its end.
Handled(s) ==
    /\ call_stack = <<>>
    /\ Becomes(s)
    /\ UNCHANGED <<tags, sources, clock, encoder, call_stack, posted, lock, threads>>

LoadPlaylist ==
    \E tracks \in Playlists :
        \E start_index \in StartIndexes(tracks), dev \in DevAnswers :
            Handled(load_playlist(Self, tracks, start_index, dev))

PlayTrack ==
    \E track \in Offered, dev \in DevAnswers :
        Handled(play_track(Self, track, 0, FALSE, dev))

TogglePlayPause == Handled(toggle_play_pause(Self))

Stop == Handled(stop(Self))

NextTrack ==
    /\ current_index < Len(queue) + MaxOvershoot
    /\ \E dev \in DevAnswers, rnd \in RandomIndexes(Self) :
           Handled(next_track(Self, dev, rnd))

PreviousTrack ==
    \E dev \in DevAnswers : Handled(previous_track(Self, dev))

Seek ==
    \E position_seconds \in SeekPositions, dev \in DevAnswers :
        Handled(seek(Self, position_seconds, dev))

SetShuffle == \E enabled \in BOOLEAN : Handled(set_shuffle(Self, enabled))

SetRepeatMode == \E mode \in RepeatInputs : Handled(set_repeat_mode(Self, mode))

SetVolume == \E volume \in VolumeInputs : Handled(set_volume(Self, volume))

SetMute == \E muted \in BOOLEAN : Handled(set_mute(Self, muted))

ToggleMute == Handled(toggle_mute(Self))

SetNormalization == \E enabled \in BOOLEAN : Handled(set_normalization(Self, enabled))

SetCrossfade == \E seconds \in CrossfadeInputs : Handled(set_crossfade(Self, seconds))

EnqueueNext ==
    \E track \in Offered, dev \in DevAnswers : Handled(enqueue_next(Self, track, dev))

AppendToQueue == \E track \in Offered : Handled(append_to_queue(Self, track))

\* The QTimer fires: _poll runs.
Poll ==
    \E dev \in DevAnswers, rnd \in RandomIndexes(Self) :
        Handled(poll(Self, dev, rnd))

\* The length of the loaded file: every file is as long as its tag says.
StreamLength == MaxSteps * StepMs

\* The device plays on for one step.
DeviceAdvance ==
    /\ mixer.status = "playing"
    /\ mixer.start + mixer.pos < StreamLength
    /\ mixer' = [mixer EXCEPT !.pos = @ + StepMs]
    /\ UNCHANGED <<queue, history, current_index, current_track, current_offset,
                   active_audio_path, crossfade_pending, state, playback_state, settings, tags,
                   sources, eq_cache, clock, encoder, call_stack, posted, disk, lock, threads>>

\* The playing stream stops by itself: its end is reached, or its
\* fade-out is over.
DeviceEnd ==
    /\ mixer.status = "playing"
    /\ mixer.fading \/ mixer.start + mixer.pos >= StreamLength
    /\ mixer' = [mixer EXCEPT !.status = "idle", !.fading = FALSE, !.pos = -1]
    /\ UNCHANGED <<queue, history, current_index, current_track, current_offset,
                   active_audio_path, crossfade_pending, state, playback_state, settings, tags,
                   sources, eq_cache, clock, encoder, call_stack, posted, disk, lock, threads>>

\* A file's tags are rewritten on disk (the folder watcher then rescans).
\* It is file 1 that is retagged.
Retag ==
    /\ \E g \in Gains : tags' = [tags EXCEPT ![1] = g]
    /\ UNCHANGED <<queue, history, current_index, current_track, current_offset,
                   active_audio_path, crossfade_pending, state, playback_state, settings, mixer,
                   sources, eq_cache, clock, encoder, call_stack, posted, disk, lock, threads>>

\* The library as it is before the first folder is loaded: any file may
\* carry any tag.
Tag ==
    /\ queue = <<>>
    /\ \E p \in Paths, g \in LibraryGains : tags' = [tags EXCEPT ![p] = g]
    /\ UNCHANGED <<queue, history, current_index, current_track, current_offset,
                   active_audio_path, crossfade_pending, state, playback_state, settings, mixer,
                   sources, eq_cache, clock, encoder, call_stack, posted, disk, lock, threads>>

SetEqPreset ==
    \E preset \in PresetInputs, dev \in DevAnswers : Handled(set_eq_preset(Self, preset, dev))

\* A collaborator that holds the settings store writes its playback state:
\* the shuffle flag or the preset.
CollaboratorWrites ==
    \/ \E enabled \in BOOLEAN :
           Handled(write_playback_state(Self, "shuffle_enabled", enabled))
    \/ \E preset \in PresetInputs :
           Handled(write_playback_state(Self, "eq_preset", preset))

\* File 1 gets another modification time: it is rewritten, restored from a
\* copy that keeps its time stamp, or carries a time stamp ahead of the clock.
Touch ==
    /\ \E t \in (0 .. MaxClock) \ {sources[1].st_mtime} :
           sources' = [sources EXCEPT ![1].st_mtime = t]
    /\ UNCHANGED <<queue, history, current_index, current_track, current_offset,
                   active_audio_path, crossfade_pending, state, playback_state, settings, mixer,
                   tags, eq_cache, clock, encoder, call_stack, posted, disk, lock, threads>>

\* File 1 is removed, made unreadable, or put back as audio.
Replace ==
    /\ \E kind \in FileKinds \ {sources[1].kind} :
           sources' = [sources EXCEPT ![1].kind = kind]
    /\ UNCHANGED <<queue, history, current_index, current_track, current_offset,
                   active_audio_path, crossfade_pending, state, playback_state, settings, mixer,
                   tags, eq_cache, clock, encoder, call_stack, posted, disk, lock, threads>>

\* Time passes.
Tick ==
    /\ clock < MaxClock
    /\ clock' = clock + 1
    /\ UNCHANGED <<queue, history, current_index, current_track, current_offset,
                   active_audio_path, crossfade_pending, state, playback_state, settings, mixer,
                   tags, sources, eq_cache, encoder, call_stack, posted, disk, lock, threads>>

\* The encoder stops working (no codec for the format, no space left on
\* the device), or works again.
EncoderChanges ==
    /\ encoder' = ~encoder
    /\ UNCHANGED <<queue, history, current_index, current_track, current_offset,
                   active_audio_path, crossfade_pending, state, playback_state, settings, mixer,
                   tags, sources, eq_cache, clock, call_stack, posted, disk, lock, threads>>

\* ----------------------------------------------------------- the event loop
\* The controller, its QTimer and the window live in the GUI thread.  The
\* thread runs Qt's event loop: it takes a posted event and calls the
\* handler connected to it, and takes the next event only when it is back
\* in an event loop.  A signal emitted by a handler calls its slots at once,
\* inside the handler.  A frame of the call stack is a handler the thread is
\* inside of; emits are the slots its signals are still to call.
Frame(name, emits) == [name |-> name, emits |-> emits]

\* The handlers of the controller: the timer's, and the public operations
\* connected to the tray menu and the context menu.
TickHandler == "_poll"
PublicOperations == {"toggle_play_pause", "play_track"}

\* MainWindow._connect_signals: the slot connected to each signal
slot_of(signal) ==
    CASE signal = "position_changed" -> "_on_position_changed"
      [] signal = "track_changed" -> "_on_track_changed"
      [] signal = "queue_updated" -> "update_queue"
      [] signal = "state_changed" -> "_on_state_changed"

\* The slots the signals of a call are delivered to, in order
slots_of(events) ==
    LET signals == SelectSeq(events, LAMBDA e : e.signal # "raise")
    IN [i \in 1 .. Len(signals) |-> slot_of(signals[i].signal)]

\* A window in which every handler and slot enters an event loop of its own
opens_event_loop_anywhere(name) == TRUE

\* The handlers that enter an event loop of their own while they run:
\* _show_track_context_menu, in menu.exec().  No slot of a controller
\* signal and no controller handler does.
opens_event_loop(name) == name = "_show_track_context_menu"

\* The thread is in an event loop: the application's, or a handler's own
in_event_loop(stack) ==
    IF stack = <<>> THEN TRUE ELSE opens_event_loop(stack[Len(stack)].name)

\* The thread calls a handler of the controller: the call, and the slots
\* of its signals left to run before it returns.
Calls(name, r) ==
    /\ Becomes(r)
    /\ call_stack' = Append(call_stack, Frame(name, slots_of(r.events)))
    /\ UNCHANGED <<tags, sources, clock, encoder, lock, threads>>

Idle ==
    UNCHANGED <<queue, history, current_index, current_track, current_offset,
                active_audio_path, crossfade_pending, state, playback_state, settings, mixer,
                tags, sources, eq_cache, clock, encoder, disk, lock, threads>>

\* The QTimer's interval has passed: its timeout waits for the event loop.
TimerExpires ==
    /\ "timeout" \notin posted
    /\ posted' = posted \cup {"timeout"}
    /\ UNCHANGED call_stack
    /\ Idle

\* The user clicks: the click waits for the event loop.
UserClicks ==
    /\ "click" \notin posted
    /\ posted' = posted \cup {"click"}
    /\ UNCHANGED call_stack
    /\ Idle

\* The event loop takes the timeout: _poll is called.
Timeout ==
    /\ in_event_loop(call_stack)
    /\ "timeout" \in posted
    /\ posted' = posted \ {"timeout"}
    /\ \E dev \in DevAnswers, rnd \in RandomIndexes(Self) : Calls(TickHandler, poll(Self, dev, rnd))

\* The event loop takes a click on the tray menu's Play/Pause.
TrayPlayPause ==
    /\ in_event_loop(call_stack)
    /\ "click" \in posted
    /\ posted' = posted \ {"click"}
    /\ Calls("toggle_play_pause", toggle_play_pause(Self))

\* The event loop takes a right click on a track: the context menu opens
\* and the window waits in menu.exec().
ContextMenu ==
    /\ call_stack = <<>>
    /\ "click" \in posted
    /\ posted' = posted \ {"click"}
    /\ call_stack' = <<Frame("_show_track_context_menu", <<>>)>>
    /\ Idle

\* The menu's event loop takes a click on its Play entry.
MenuPlay ==
    /\ call_stack # <<>> /\ call_stack[Len(call_stack)].name = "_show_track_context_menu"
    /\ in_event_loop(call_stack)
    /\ "click" \in posted
    /\ posted' = posted \ {"click"}
    /\ \E track \in Offered, dev \in DevAnswers :
           Calls("play_track", play_track(Self, track, 0, FALSE, dev))

\* The handler the thread is in emits its next signal: the slot is called.
Deliver ==
    /\ call_stack # <<>> /\ call_stack[Len(call_stack)].emits # <<>>
    /\ LET top == call_stack[Len(call_stack)]
       IN call_stack' = Append([call_stack EXCEPT ![Len(call_stack)].emits = Tail(@)],
                               Frame(Head(top.emits), <<>>))
    /\ UNCHANGED posted
    /\ Idle

\* The handler or slot the thread is in returns (the menu: it is closed).
Return ==
    /\ call_stack # <<>> /\ call_stack[Len(call_stack)].emits = <<>>
    /\ call_stack' = SubSeq(call_stack, 1, Len(call_stack) - 1)
    /\ UNCHANGED posted
    /\ Idle

\* ------------------------------------------------- the store under threads
\* A thread's call of the store runs line by line: pc tells the step it is
\* to take next.  The calls each thread makes: the GUI thread sets the
\* shuffle flag; the worker sets the mute flag or remembers a position of
\* file 1.
CallsOf(t) ==
    IF t = "gui"
    THEN {[Outside EXCEPT !.pc = "lock", !.call = "update_playback_state",
                          !.key = "shuffle_enabled", !.flag = b] : b \in BOOLEAN}
    ELSE {[Outside EXCEPT !.pc = "lock", !.call = "update_playback_state",
                          !.key = "is_muted", !.flag = b] : b \in BOOLEAN}
         \cup {[Outside EXCEPT !.pc = "lock", !.call = "remember_track_position",
                               !.path = 1, !.position = x] : x \in SeekPositions}

\* What a thread's step leaves alone: the controller, its device, the files.
Elsewhere ==
    UNCHANGED <<queue, history, current_index, current_track, current_offset,
                active_audio_path, crossfade_pending, state, playback_state, mixer,
                tags, sources, eq_cache, clock, encoder, call_stack, posted>>

\* A thread calls update_playback_state or remember_track_position.
StoreCall ==
    /\ \E t \in Threads : \E call \in CallsOf(t) :
           /\ threads[t].pc \in {"outside", "returned"}
           /\ threads' = [threads EXCEPT ![t] = call]
    /\ UNCHANGED <<settings, disk, lock>>
    /\ Elsewhere

\* with self._lock:
Acquire ==
    /\ \E t \in Threads :
           /\ threads[t].pc = "lock"
           /\ may_acquire(lock, t)
           /\ lock' = t
           /\ threads' = [threads EXCEPT ![t].pc =
                              IF threads[t].call = "update_playback_state" THEN "get" ELSE "set"]
    /\ UNCHANGED <<settings, disk>>
    /\ Elsewhere

\* playback = self.get_playback_state(); setattr(playback, key, value)
GetPlayback ==
    /\ \E t \in Threads :
           /\ threads[t].pc = "get"
           /\ threads' = [threads EXCEPT ![t].pc = "set",
                              ![t].playback = [settings.playback EXCEPT ![threads[t].key] = threads[t].flag]]
    /\ UNCHANGED <<settings, disk, lock>>
    /\ Elsewhere

\* self._data["playback"] = asdict(playback), or positions[str(track)] = position_seconds
SetData ==
    /\ \E t \in Threads :
           /\ threads[t].pc = "set"
           /\ settings' = IF threads[t].call = "update_playback_state"
                          THEN [settings EXCEPT !.playback = threads[t].playback]
                          ELSE [settings EXCEPT !.track_positions[threads[t].path] = threads[t].position]
           /\ threads' = [threads EXCEPT ![t].pc = "open"]
    /\ UNCHANGED <<disk, lock>>
    /\ Elsewhere

\* _save_locked: json.dumps(self._data), and write_text opens the temporary file
OpenTemp ==
    /\ \E t \in Threads :
           /\ threads[t].pc = "open"
           /\ disk' = open_file(disk, temp_path, settings)
           /\ threads' = [threads EXCEPT ![t].pc = "write", ![t].document = settings]
    /\ UNCHANGED <<settings, lock>>
    /\ Elsewhere

\* _save_locked: write_text writes the document and closes the file
WriteTemp ==
    /\ \E t \in Threads :
           /\ threads[t].pc = "write"
           /\ disk' = write_file(disk, temp_path, threads[t].document)
           /\ threads' = [threads EXCEPT ![t].pc = "replace"]
    /\ UNCHANGED <<settings, lock>>
    /\ Elsewhere

\* _save_locked: temp_path.replace(self._settings_path)
ReplaceSettings ==
    /\ \E t \in Threads :
           /\ threads[t].pc = "replace"
           /\ disk' = replace(disk, temp_path, settings_path)
           /\ threads' = [threads EXCEPT ![t].pc = "release"]
    /\ UNCHANGED <<settings, lock>>
    /\ Elsewhere

\* The with block is left, the call returns.
Release ==
    /\ \E t \in Threads :
           /\ threads[t].pc = "release"
           /\ lock' = NoThread
           /\ threads' = [threads EXCEPT ![t].pc = "returned", ![t].playback = DefaultPlaybackState,
                                          ![t].document = DefaultSettings]
    /\ UNCHANGED <<settings, disk>>
    /\ Elsewhere

\* The process crashes: its threads stop where they are, the files stay.
Crash ==
    /\ \E t \in Threads : threads[t].pc # "crashed"
    /\ threads' = [t \in Threads |-> [threads[t] EXCEPT !.pc = "crashed"]]
    /\ UNCHANGED <<settings, disk, lock>>
    /\ Elsewhere

\* The application is started again: SettingsManager.__init__ loads the
\* file, AudioPlayer.__init__ takes its playback state from the store.
Restart ==
    /\ \A t \in Threads : threads[t].pc = "crashed"
    /\ settings' = load(disk)
    /\ playback_state' = load(disk).playback
    /\ lock' = NoThread
    /\ threads' = [t \in Threads |-> Outside]
    /\ UNCHANGED <<queue, history, current_index, current_track, current_offset,
                   active_audio_path, crossfade_pending, state, mixer, tags, sources, eq_cache,
                   clock, encoder, call_stack, posted, disk>>

\* The controller under the window's navigation: what is played and queued.
Next ==
    \/ LoadPlaylist
    \/ PlayTrack
    \/ Stop
    \/ NextTrack
    \/ PreviousTrack
    \/ SetShuffle
    \/ SetRepeatMode
    \/ EnqueueNext
    \/ AppendToQueue
    \/ Poll
    \/ DeviceAdvance
    \/ DeviceEnd

Spec == Init /\ [][Next]_vars

\* The controller under the window's transport controls: pause, seek, the
\* crossfade setting, over a loaded folder.
NextTransport ==
    \/ LoadPlaylist
    \/ TogglePlayPause
    \/ Stop
    \/ Seek
    \/ SetRepeatMode
    \/ SetCrossfade
    \/ Poll
    \/ DeviceAdvance
    \/ DeviceEnd

SpecTransport == Init /\ [][NextTransport]_vars

\* The controller left to its timer over a loaded folder, under every
\* setting of shuffle, repeat and crossfade.
NextCrossfade ==
    \/ LoadPlaylist
    \/ SetShuffle
    \/ SetRepeatMode
    \/ SetCrossfade
    \/ Poll
    \/ DeviceAdvance
    \/ DeviceEnd

SpecCrossfade == Init /\ [][NextCrossfade]_vars

\* The controller while files are retagged and rescanned between calls.
NextRescan ==
    \/ Retag
    \/ LoadPlaylist
    \/ PlayTrack
    \/ EnqueueNext
    \/ AppendToQueue
    \/ Stop

SpecRescan == Init /\ [][NextRescan]_vars

\* The controller under the volume controls, over files with and without
\* ReplayGain tags.
NextVolume ==
    \/ Tag
    \/ LoadPlaylist
    \/ Stop
    \/ SetVolume
    \/ SetMute
    \/ ToggleMute
    \/ SetNormalization

SpecVolume == Init /\ [][NextVolume]_vars

\* The controller under the preferences, while a collaborator writes the
\* settings store between the calls.
NextPreferences ==
    \/ LoadPlaylist
    \/ SetShuffle
    \/ SetNormalization
    \/ SetEqPreset
    \/ CollaboratorWrites

SpecPreferences == Init /\ [][NextPreferences]_vars

\* The controller under the equalizer preference, while the files change
\* on disk and time passes.
NextEqualizer ==
    \/ LoadPlaylist
    \/ SetEqPreset
    \/ Touch
    \/ Tick

SpecEqualizer == Init /\ [][NextEqualizer]_vars

\* The controller under the equalizer preference, while files are removed
\* or damaged and the encoder fails.
NextShaping ==
    \/ LoadPlaylist
    \/ SetEqPreset
    \/ Replace
    \/ EncoderChanges

SpecShaping == Init /\ [][NextShaping]_vars

\* The GUI thread: the timer and the user post events, the event loop
\* calls their handlers.
NextEventLoop ==
    \/ TimerExpires
    \/ UserClicks
    \/ Timeout
    \/ TrayPlayPause
    \/ ContextMenu
    \/ MenuPlay
    \/ Deliver
    \/ Return

SpecEventLoop == Init /\ [][NextEventLoop]_vars

\* The settings store called by two threads, in a process that may crash
\* and be started again.
NextSettings ==
    \/ StoreCall
    \/ Acquire
    \/ GetPlayback
    \/ SetData
    \/ OpenTemp
    \/ WriteTemp
    \/ ReplaceSettings
    \/ Release
    \/ Crash
    \/ Restart

SpecSettings == Init /\ [][NextSettings]_vars

\* ================================================================ claims
\* Where a claim is about one call, it is stated over the handler's value:
\* from every reachable state, for every input, what the call returns.

IndexValid(s) == 0 <= s.current_index /\ s.current_index < Len(s.queue)

\* C1: in every reachable state, if the current index is in [0, len(queue))
\* then the current track is queue[current index].
C1_CurrentTrackIsQueueEntry ==
    IndexValid(Self) => current_track = queue[current_index + 1]

\* C2: the queue never holds two entries with the same file path.
C2_QueueHasNoPathTwice ==
    \A i, j \in 1 .. Len(queue) : i # j => queue[i].path # queue[j].path

\* C3: in every reachable state the current index is -1 or satisfies
\* 0 <= index < len(queue).
C3_IndexInRange == current_index = -1 \/ IndexValid(Self)

\* ---------------------------------------------------------------- C4
\* The clamp of mathematics: the value of [lo, hi] nearest to i.
Clamp(i, lo, hi) == IF i < lo THEN lo ELSE IF i > hi THEN hi ELSE i

\* Start indexes below, inside and beyond every playlist.
AnyIndexes == (0 - NumPaths - 1) .. (NumPaths + 1)

NonEmptyPlaylists == Playlists \ {<<>>}

\* C4 as stated: for every non-empty track list and every start index i,
\* after load_playlist(tracks, i) the current track is
\* tracks[clamp(i, 0, len-1)], whatever the device answers.
C4_LoadPlaylistAlwaysPlaysClamped ==
    \A tracks \in NonEmptyPlaylists : \A i \in AnyIndexes, dev \in DevAnswers :
        load_playlist(Self, tracks, i, dev).current_track
            = tracks[Clamp(i, 0, Len(tracks) - 1) + 1]

\* C4, amended: for every non-empty track list and every start index i,
\* after load_playlist(tracks, i) the queue is tracks and the current index
\* is clamp(i, 0, len-1); if the device accepted the load and the play, the
\* current track is tracks[clamp(i, 0, len-1)] and the state is playing; if
\* it rejected either, the current track is the one from before the call
\* and the state is error.
C4_LoadPlaylistPlaysClamped ==
    \A tracks \in NonEmptyPlaylists : \A i \in AnyIndexes, dev \in DevAnswers :
        LET r == load_playlist(Self, tracks, i, dev)
            k == Clamp(i, 0, Len(tracks) - 1)
        IN /\ r.queue = tracks
           /\ r.current_index = k
           /\ dev = "ok" => r.current_track = tracks[k + 1] /\ r.state = "playing"
           /\ dev # "ok" => r.current_track = current_track /\ r.state = "error"

\* C4's case: a folder of all the files was loaded from its last row while
\* something else was current, and a start index beyond the folder would
\* load the same row.
C4_Witness ==
    /\ queue = ScannedFolder(NumPaths)
    /\ current_index = NumPaths - 1
    /\ current_track = queue[NumPaths]
    /\ state = "playing"
    /\ history # <<queue[NumPaths]>>
    /\ load_playlist(Self, queue, NumPaths + 1, "ok").current_index = current_index

\* ---------------------------------------------------------------- C5
\* next_track() is about to run off the end of a non-empty queue in order.
AtLastPosition ==
    /\ queue # <<>>
    /\ ~playback_state.shuffle_enabled
    /\ current_index = Len(queue) - 1

\* C5 as stated: with shuffle off and the current index at the last
\* position of a non-empty queue, next_track() with repeat mode "all" makes
\* queue[0] the current track at index 0 in state playing, and with repeat
\* mode "off" ends in state stopped with no current track, whatever the
\* device answers.
C5_NextAtEndAlwaysWrapsOrStops ==
    AtLastPosition =>
        \A dev \in DevAnswers, rnd \in RandomIndexes(Self) :
            LET r == next_track(Self, dev, rnd)
            IN /\ playback_state.repeat_mode = "all" =>
                      /\ r.current_track = queue[1]
                      /\ r.current_index = 0
                      /\ r.state = "playing"
               /\ playback_state.repeat_mode = "off" =>
                      r.state = "stopped" /\ r.current_track = None

\* C5, amended: with shuffle off and the current index at the last position
\* of a non-empty queue, next_track() with repeat mode "all" sets the index
\* to 0 and, if the device accepts the load and the play, makes queue[0] the
\* current track in state playing (if the device rejects either, the state
\* is error and the current track is left as it was); with repeat mode
\* "off" it ends in state stopped with no current track.
C5_NextAtEndWrapsOrStops ==
    AtLastPosition =>
        \A dev \in DevAnswers, rnd \in RandomIndexes(Self) :
            LET r == next_track(Self, dev, rnd)
            IN /\ playback_state.repeat_mode = "all" =>
                      /\ r.current_index = 0
                      /\ dev = "ok" => r.current_track = queue[1] /\ r.state = "playing"
                      /\ dev # "ok" => r.current_track = current_track /\ r.state = "error"
               /\ playback_state.repeat_mode = "off" =>
                      r.state = "stopped" /\ r.current_track = None

\* C5's case: the last of several queued tracks is playing under repeat
\* "all", and next_track() starts the first.
C5_Witness ==
    /\ AtLastPosition
    /\ Len(queue) >= 2
    /\ playback_state.repeat_mode = "all"
    /\ state = "playing"
    /\ current_track = queue[Len(queue)]
    /\ next_track(Self, "ok", 0).current_track = queue[1]
    /\ next_track(Self, "ok", 0).current_track # current_track

\* ---------------------------------------------------------------- C6
\* Shuffle is on and the history has two entries or more, the last of them
\* the current track.
BackwardThroughHistory ==
    /\ queue # <<>>
    /\ playback_state.shuffle_enabled
    /\ Len(history) >= 2
    /\ history[Len(history)] = current_track

\* C6 as stated: with shuffle on and a history h of at least two entries
\* whose last entry is the current track, previous_track() plays the
\* second-to-last entry of h and leaves the history equal to h without its
\* last two entries.
C6_PreviousLeavesHistoryWithoutLastTwo ==
    BackwardThroughHistory =>
        LET r == previous_track(Self, "ok")
        IN /\ r.current_track = history[Len(history) - 1]
           /\ r.history = SubSeq(history, 1, Len(history) - 2)

\* C6, amended: with shuffle on and a history h of at least two entries
\* whose last entry is the current track, previous_track() pops the last
\* two entries and starts the second-to-last entry of h; if the device
\* accepts it, that entry is the current track, state is playing, and it is
\* pushed back: the history is h without its last entry ([A, B, C] with C
\* current: B plays, history becomes [A, B]).  If the device rejects it, the
\* history is h without its last two entries, the current track is left as
\* it was and the state is error.
C6_PreviousLeavesHistoryWithoutLast ==
    BackwardThroughHistory =>
        \A dev \in DevAnswers :
            LET r == previous_track(Self, dev)
                n == Len(history)
            IN /\ dev = "ok" =>
                      /\ r.current_track = history[n - 1]
                      /\ r.state = "playing"
                      /\ r.history = SubSeq(history, 1, n - 1)
                      /\ r.devlog[1] = Call("load", history[n - 1].path, 0, 0, 0, TRUE)
               /\ dev # "ok" =>
                      /\ r.current_track = current_track
                      /\ r.state = "error"
                      /\ r.history = SubSeq(history, 1, n - 2)

\* C6's case: under shuffle two tracks were played one after the other,
\* the second is current, and previous_track() goes back to the first.
C6_Witness ==
    /\ BackwardThroughHistory
    /\ state = "playing"
    /\ history[Len(history) - 1] # current_track
    /\ previous_track(Self, "ok").current_track = history[Len(history) - 1]
    /\ previous_track(Self, "ok").history = SubSeq(history, 1, Len(history) - 1)

\* ---------------------------------------------------------------- C7
\* C7: in every reachable state the history holds at most 50 entries and
\* no track (no file path) appears in it twice.
C7_HistoryBoundedNoPathTwice ==
    /\ Len(history) <= HistoryMaxLen
    /\ \A i, j \in 1 .. Len(history) : i # j => history[i].path # history[j].path

\* ----------------------------------------------------- C8, C9, C10
\* What the tick reads: the position within the track and its distance
\* from the track's end.
TickPosition == current_offset + mixer.pos
TickRemaining == Max(current_track.duration_seconds, TickPosition) - TickPosition

\* A tick while the device is busy, with the pending flag false, crossfade
\* seconds > 0 and duration - position <= crossfade seconds.
HandoffTick ==
    /\ current_track # None
    /\ mixer.status = "playing"
    /\ ~crossfade_pending
    /\ playback_state.crossfade_seconds > 0
    /\ TickRemaining <= playback_state.crossfade_seconds

\* A successor track is available: any entry under shuffle, else the next
\* entry of the queue, else its first under repeat "all".
SuccessorAvailable ==
    /\ queue # <<>>
    /\ \/ playback_state.shuffle_enabled
       \/ current_index + 1 < Len(queue)
       \/ playback_state.repeat_mode = "all"

\* The successor, rnd being the entry drawn under shuffle.
Successor(rnd) ==
    IF playback_state.shuffle_enabled THEN queue[rnd + 1]
    ELSE IF current_index + 1 < Len(queue) THEN queue[current_index + 2]
    ELSE queue[1]

\* A handoff tick that is not held back and has a track to hand off to.
HandoffStarts ==
    /\ HandoffTick
    /\ playback_state.repeat_mode # "one"
    /\ SuccessorAvailable

\* C8: on a tick while the device is busy, with the pending flag false,
\* crossfade seconds > 0, repeat mode not "one", duration - position <=
\* crossfade seconds, a successor available and the device accepting
\* commands: the device is told to fade out over crossfade seconds, the
\* successor is loaded and played from offset 0, it becomes the current
\* track, track-changed is emitted with it, the history ends with it, and
\* the pending flag is false when the tick returns.
C8_TickHandsOffToSuccessor ==
    HandoffStarts =>
        \A rnd \in RandomIndexes(Self) :
            LET r == poll(Self, "ok", rnd)
                next_item == Successor(rnd)
                fade_ms == playback_state.crossfade_seconds
            IN /\ Len(r.devlog) >= 3
               /\ r.devlog[1] = Call("fadeout", mixer.loaded, 0, fade_ms, 0, TRUE)
               /\ r.devlog[2] = Call("load", next_item.path, 0, 0, 0, TRUE)
               /\ r.devlog[3] = Call("play", next_item.path, 0, fade_ms, 0, TRUE)
               /\ r.mixer.loaded = next_item.path
               /\ r.mixer.status = "playing"
               /\ r.mixer.start = 0
               /\ r.current_offset = 0
               /\ r.current_track = next_item
               /\ Contains(r.events, track_changed(next_item))
               /\ r.history # <<>>
               /\ r.history[Len(r.history)] = next_item
               /\ ~r.crossfade_pending

\* C8's case: the first of two queued tracks plays in order, its remaining
\* time is exactly the crossfade time, and the tick hands off to the second.
C8_Witness ==
    /\ HandoffStarts
    /\ ~playback_state.shuffle_enabled
    /\ Len(queue) >= 2
    /\ current_index = 0
    /\ current_track = queue[1]
    /\ TickRemaining = playback_state.crossfade_seconds
    /\ poll(Self, "ok", 0).current_track = queue[2]
    /\ poll(Self, "ok", 0).current_track # current_track

\* C9: while repeat mode is "one", no tick issues a device fade-out or
\* replaces the current track through a crossfade handoff, for every
\* crossfade seconds value and every playback position.
C9_RepeatOneNeverCrossfades ==
    playback_state.repeat_mode = "one" =>
        \A dev \in DevAnswers, rnd \in RandomIndexes(Self) :
            LET r == poll(Self, dev, rnd)
            IN /\ \A i \in 1 .. Len(r.devlog) : r.devlog[i].cmd # "fadeout"
               /\ r.current_track = current_track
               /\ get_busy(Self) => r.mixer = mixer /\ r.history = history

\* C9's case: under repeat "one" a tick finds the playing track within the
\* crossfade time of its end, with more tracks queued, and leaves the device
\* alone.
C9_Witness ==
    /\ playback_state.repeat_mode = "one"
    /\ HandoffTick
    /\ Len(queue) >= 2
    /\ current_index + 1 < Len(queue)
    /\ poll(Self, "ok", 0).devlog = <<>>
    /\ poll(Self, "ok", 0).crossfade_pending

\* C10: if the device rejects the load or the play of the next stream
\* during a crossfade handoff, then when the tick returns the pending flag
\* is false and the old stream is untouched: it is still the loaded stream,
\* no fade-out is in effect on it, and the current track, current index,
\* current offset, history and transport state are the same as before the
\* tick.
C10_FailedHandoffLeavesOldStream ==
    HandoffStarts =>
        \A dev \in DevAnswers \ {"ok"}, rnd \in RandomIndexes(Self) :
            LET r == poll(Self, dev, rnd)
            IN /\ ~r.crossfade_pending
               /\ r.mixer.loaded = mixer.loaded
               /\ r.mixer.status = "playing"
               /\ ~r.mixer.fading
               /\ r.current_track = current_track
               /\ r.current_index = current_index
               /\ r.current_offset = current_offset
               /\ r.history = history
               /\ r.state = state

\* --------------------------------------------------------------- C11
\* The calls of a handler's value that start a stream on the device.
IssuesLoadOrPlay(r) == \E i \in 1 .. Len(r.devlog) : r.devlog[i].cmd \in {"load", "play"}

\* C11: when the device rejects a load or play inside play_track, the
\* transport state becomes error and state-changed("error") is emitted; and
\* while the state is error no tick issues a load or a play to the device.
C11_RejectedStartIsNotRetried ==
    /\ \A track \in Offered, dev \in DevAnswers \ {"ok"} :
           LET r == play_track(Self, track, 0, FALSE, dev)
           IN r.state = "error" /\ Contains(r.events, state_changed("error"))
    /\ state = "error" =>
           \A dev \in DevAnswers, rnd \in RandomIndexes(Self) :
               ~IssuesLoadOrPlay(poll(Self, dev, rnd))

\* --------------------------------------------------------------- C12
\* C12: toggle_play_pause() called while the transport state is stopped is
\* a no-op: the state stays stopped, no state-changed event is emitted and
\* the current track stays none.
C12_ToggleWhileStoppedIsNoOp ==
    state = "stopped" =>
        LET r == toggle_play_pause(Self)
        IN /\ r.state = "stopped"
           /\ \A i \in 1 .. Len(r.events) : r.events[i].signal # "state_changed"
           /\ r.current_track = None

\* --------------------------------------------------------------- C13
\* C13: after stop() from any transport state the device is halted, the
\* current track is none, track-changed(none) has been emitted and the
\* state is stopped; and in state stopped there is no current track, the
\* device is idle and a tick changes nothing, emits nothing and sends the
\* device nothing, so the state stays stopped across any number of ticks.
C13_StopHaltsAndStaysStopped ==
    /\ LET r == stop(Self)
       IN /\ r.devlog = <<Call("stop", mixer.loaded, 0, 0, 0, TRUE)>>
          /\ r.mixer.status = "idle"
          /\ r.mixer.pos = -1
          /\ r.current_track = None
          /\ r.state = "stopped"
          /\ r.events = <<state_changed("stopped"), track_changed(None)>>
          /\ \A dev \in DevAnswers, rnd \in RandomIndexes(Self) :
                 poll([r EXCEPT !.events = <<>>, !.devlog = <<>>], dev, rnd)
                     = [r EXCEPT !.events = <<>>, !.devlog = <<>>]
    /\ state = "stopped" =>
           /\ current_track = None
           /\ mixer.status = "idle"
           /\ \A dev \in DevAnswers, rnd \in RandomIndexes(Self) : poll(Self, dev, rnd) = Self

\* C13's case: a track is playing on a busy device, and stop() halts it.
C13_Witness ==
    /\ state = "playing"
    /\ current_track # None
    /\ mixer.status = "playing"
    /\ mixer.pos > 0
    /\ stop(Self).state = "stopped"
    /\ stop(Self).mixer.status = "idle"

\* --------------------------------------------------------------- C14
\* Seek positions before the start, inside and past the end of a track.
AnySeekPositions == {0 - StepMs, 0, StepMs \div 2, MaxSteps * StepMs, (MaxSteps + 1) * StepMs}

\* C14: for every position p (p <= 0 and p > duration included), after
\* seek(p) on a current track with a cooperating device, the current track
\* is unchanged and the current offset is min(max(p, 0), track duration),
\* whatever resume offset is persisted for the track.
C14_SeekStartsAtClampedPosition ==
    current_track # None =>
        \A p \in AnySeekPositions :
            LET r == seek(Self, p, "ok")
            IN /\ r.current_track = current_track
               /\ r.current_offset = Min(Max(p, 0), current_track.duration_seconds)

\* --------------------------------------------------------------- C15
\* C15: whenever the current track is none, enqueue_next(t) with a
\* cooperating device ends with t as the current track in state playing.
C15_EnqueueNextStartsWhenNothingPlays ==
    current_track = None =>
        \A t \in Offered :
            LET r == enqueue_next(Self, t, "ok")
            IN r.current_track = t /\ r.state = "playing"

\* ------------------------------------------------------ C16, C17, C18
\* The effective volume of a track under the settings of s: 0 if muted,
\* else the base volume, multiplied by the track's gain factor when
\* normalization is enabled and the gain is non-zero, clamped to [0, 1].
EffectiveVolume(s, track) ==
    LET base == IF s.playback_state.is_muted THEN 0 ELSE s.playback_state.volume
        factor == IF s.playback_state.normalization_enabled /\ track.normalized_gain_db # 0
                  THEN GainFactor(track.normalized_gain_db) ELSE VolumeOne
    IN Clamp(Scaled(base, factor), 0, VolumeOne)

\* The device volume after a call is the effective volume of the track
\* that is current after it.
VolumeApplied(r) ==
    r.current_track # None => r.mixer.volume = EffectiveVolume(r, r.current_track)

\* C16: whenever a track is current, after every track start and after
\* every set_volume, set_mute or set_normalization call, the volume last
\* applied to the device equals the effective volume of the current track.
C16_DeviceVolumeIsEffectiveVolume ==
    /\ \A tracks \in NonEmptyPlaylists : \A i \in StartIndexes(tracks) :
           VolumeApplied(load_playlist(Self, tracks, i, "ok"))
    /\ \A volume \in VolumeInputs : VolumeApplied(set_volume(Self, volume))
    /\ \A muted \in BOOLEAN : VolumeApplied(set_mute(Self, muted))
    /\ \A enabled \in BOOLEAN : VolumeApplied(set_normalization(Self, enabled))

\* set_volume(v); set_mute(True); set_mute(False)
ThroughMute(v) == set_mute(set_mute(set_volume(Self, v), TRUE), FALSE)

\* C17 as stated: for every v, set_volume(v); set_mute(True);
\* set_mute(False) leaves the persisted base volume equal to v clamped to
\* [0, 1] and the device volume equal to the value it had right after
\* set_volume(v).
C17_MuteRoundTripRestoresDeviceVolume ==
    \A v \in VolumeInputs :
        /\ ThroughMute(v).settings.playback.volume = Clamp(v, 0, VolumeOne)
        /\ ThroughMute(v).mixer.volume = set_volume(Self, v).mixer.volume

\* C17, amended: for every v, set_volume(v); set_mute(True);
\* set_mute(False) leaves the persisted and the cached base volume equal to
\* v clamped to [0, 1], the mute flag off and the device volume equal to v
\* clamped to [0, 1]: the value it had right after set_volume(v) if the
\* player was not muted before the sequence, while a player muted before
\* it had device volume 0 right after set_volume(v).
C17_MuteRoundTripRestoresVolume ==
    \A v \in VolumeInputs :
        /\ ThroughMute(v).settings.playback.volume = Clamp(v, 0, VolumeOne)
        /\ ThroughMute(v).playback_state.volume = Clamp(v, 0, VolumeOne)
        /\ ~ThroughMute(v).playback_state.is_muted
        /\ ~ThroughMute(v).settings.playback.is_muted
        /\ ThroughMute(v).mixer.volume = Clamp(v, 0, VolumeOne)
        /\ set_mute(set_volume(Self, v), TRUE).mixer.volume = 0
        /\ ~playback_state.is_muted =>
               ThroughMute(v).mixer.volume = set_volume(Self, v).mixer.volume
        /\ playback_state.is_muted => set_volume(Self, v).mixer.volume = 0

\* C17's case: a muted player with a volume other than a half, on which
\* the sequence with v = 0.5 ends unmuted at device volume 0.5.
C17_Witness ==
    /\ playback_state.is_muted
    /\ mixer.volume = 0
    /\ playback_state.volume # VolumeOne \div 2
    /\ current_track # None
    /\ ThroughMute(VolumeOne \div 2).mixer.volume = VolumeOne \div 2
    /\ set_volume(Self, VolumeOne \div 2).mixer.volume = 0

\* The volumes a call sent to the device.
VolumesSent(r) == {r.devlog[i].volume : i \in {j \in 1 .. Len(r.devlog) : r.devlog[j].cmd = "set_volume"}}

\* A track whose gain lifts the base volume of s to 1.0 or more.
Loud(s, track) ==
    /\ track.normalized_gain_db = 40
    /\ s.playback_state.normalization_enabled
    /\ ~s.playback_state.is_muted
    /\ Scaled(s.playback_state.volume, GainFactor(40)) >= VolumeOne

\* C18: every volume the controller sends to the device lies in [0, 1],
\* for every base volume, mute flag, normalization flag and per-track gain;
\* a gain of +40 dB that lifts the base volume past 1.0 yields exactly 1.0.
C18_DeviceVolumeInUnitRange ==
    /\ mixer.volume \in 0 .. VolumeOne
    /\ \A track \in Offered :
           /\ compute_normalized_volume(Self, track) \in 0 .. VolumeOne
           /\ Loud(Self, track) => compute_normalized_volume(Self, track) = VolumeOne
    /\ \A tracks \in NonEmptyPlaylists : \A i \in StartIndexes(tracks) :
           LET r == load_playlist(Self, tracks, i, "ok")
           IN /\ VolumesSent(r) \subseteq 0 .. VolumeOne
              /\ Loud(r, r.current_track) => VolumesSent(r) = {VolumeOne}
    /\ \A volume \in VolumeInputs : VolumesSent(set_volume(Self, volume)) \subseteq 0 .. VolumeOne
    /\ \A muted \in BOOLEAN : VolumesSent(set_mute(Self, muted)) \subseteq 0 .. VolumeOne
    /\ \A enabled \in BOOLEAN :
           VolumesSent(set_normalization(Self, enabled)) \subseteq 0 .. VolumeOne

\* C18's case: a track tagged +40 dB was started at a base volume below
\* 1.0 with normalization on, and the device got exactly 1.0.
C18_Witness ==
    /\ current_track # None
    /\ Loud(Self, current_track)
    /\ state = "playing"
    /\ playback_state.volume < VolumeOne
    /\ mixer.volume = VolumeOne
    /\ VolumesSent(load_playlist(Self, queue, current_index, "ok")) = {VolumeOne}

\* --------------------------------------------------------------- C19
\* The exception a call let escape to its caller, if any.
Raised(r, exception) == Contains(r.events, Signal("raise", None, exception))
RaisedNothing(r) == \A i \in 1 .. Len(r.events) : r.events[i].signal # "raise"

\* C19: load_playlist called with an empty track list fails with an
\* EmptyQueueError reported to the caller and leaves the queue, current
\* index, current track and transport state unchanged.
C19_EmptyPlaylistIsRejected ==
    \A i \in AnyIndexes, dev \in DevAnswers :
        LET r == load_playlist(Self, <<>>, i, dev)
        IN /\ Raised(r, "EmptyQueueError")
           /\ r.queue = queue
           /\ r.current_index = current_index
           /\ r.current_track = current_track
           /\ r.state = state

\* --------------------------------------------------------------- C20
\* C20: set_repeat_mode(mode) with mode outside {off, one, all} fails with
\* an error and leaves both the cached and the persisted repeat mode
\* unchanged; with mode inside the set it succeeds and both equal mode.
C20_RepeatModeIsValidated ==
    \A mode \in RepeatInputs :
        LET r == set_repeat_mode(Self, mode)
        IN IF mode \in {"off", "one", "all"}
           THEN /\ RaisedNothing(r)
                /\ r.playback_state.repeat_mode = mode
                /\ r.settings.playback.repeat_mode = mode
           ELSE /\ Raised(r, "ValueError")
                /\ r.playback_state.repeat_mode = playback_state.repeat_mode
                /\ r.settings.playback.repeat_mode = settings.playback.repeat_mode

\* C20's case: the repeat mode was set to "all"; a mode that is none of the
\* three is refused and a valid one replaces it.
C20_Witness ==
    /\ playback_state.repeat_mode = "all"
    /\ settings.playback.repeat_mode = "all"
    /\ Raised(set_repeat_mode(Self, "shuffle"), "ValueError")
    /\ set_repeat_mode(Self, "shuffle").playback_state.repeat_mode = "all"
    /\ set_repeat_mode(Self, "one").settings.playback.repeat_mode = "one"

\* --------------------------------------------------------------- C28
\* C28: in every reachable state in which a track is current, the last
\* entry of the history is the current track.
C28_CurrentTrackIsLastInHistory ==
    current_track # None =>
        history # <<>> /\ history[Len(history)] = current_track

\* --------------------------------------------------------------- C29
\* x sits immediately after c in seq.
ImmediatelyAfter(seq, c, x) ==
    \E i \in 1 .. Len(seq) - 1 : seq[i] = c /\ seq[i + 1] = x

\* C29: after enqueue_next(t) while a track c different from t is current
\* (c being the queue entry the current index names), t sits immediately
\* after c in the queue, wherever t was in the queue before the call.
C29_EnqueueNextPutsTrackAfterCurrent ==
    (current_track # None /\ IndexValid(Self) /\ queue[current_index + 1] = current_track) =>
        \A t \in Offered \ {current_track} :
            \A dev \in DevAnswers :
                ImmediatelyAfter(enqueue_next(Self, t, dev).queue, current_track, t)

\* --------------------------------------------------------------- C30
\* C30: after any explicit track change (play_track, load_playlist,
\* next_track, previous_track, seek, stop) returns, the crossfade-pending
\* flag is false, whether the device accepted the change or rejected it.
C30_TrackChangeClearsPending ==
    \A dev \in DevAnswers :
        /\ \A track \in Offered : ~play_track(Self, track, 0, FALSE, dev).crossfade_pending
        /\ \A tracks \in NonEmptyPlaylists : \A i \in StartIndexes(tracks) :
               ~load_playlist(Self, tracks, i, dev).crossfade_pending
        /\ queue # <<>> =>
               /\ \A rnd \in RandomIndexes(Self) : ~next_track(Self, dev, rnd).crossfade_pending
               /\ ~previous_track(Self, dev).crossfade_pending
        /\ current_track # None =>
               \A p \in AnySeekPositions : ~seek(Self, p, dev).crossfade_pending
        /\ ~stop(Self).crossfade_pending


\* ---------------------------------------------------------------- C21
\* The cached playback state of a controller equals, field by field, the
\* playback state its settings store holds.
WrittenThrough(r) ==
    \A key \in DOMAIN DefaultPlaybackState : r.playback_state[key] = r.settings.playback[key]

\* The store of r holds value under key.
Stored(r, key, value) == r.settings.playback[key] = value

\* C21: after every controller setter that returns (set_volume, set_mute,
\* toggle_mute, set_shuffle, set_repeat_mode with a valid mode, set_crossfade,
\* set_normalization, set_eq_preset), the store holds the value set and every
\* field of the controller's cached playback state equals the store's, from
\* every reachable state, those in which a collaborator has written the
\* store's playback state since the controller's last write included.
C21_SettersWriteThrough ==
    /\ \A volume \in VolumeInputs :
           /\ WrittenThrough(set_volume(Self, volume))
           /\ Stored(set_volume(Self, volume), "volume", Clamp(volume, 0, VolumeOne))
    /\ \A flag \in BOOLEAN :
           /\ WrittenThrough(set_mute(Self, flag))
           /\ Stored(set_mute(Self, flag), "is_muted", flag)
           /\ WrittenThrough(set_shuffle(Self, flag))
           /\ Stored(set_shuffle(Self, flag), "shuffle_enabled", flag)
           /\ WrittenThrough(set_normalization(Self, flag))
           /\ Stored(set_normalization(Self, flag), "normalization_enabled", flag)
    /\ WrittenThrough(toggle_mute(Self))
    /\ \A mode \in RepeatModes :
           /\ WrittenThrough(set_repeat_mode(Self, mode))
           /\ Stored(set_repeat_mode(Self, mode), "repeat_mode", mode)
    /\ \A seconds \in CrossfadeInputs :
           /\ WrittenThrough(set_crossfade(Self, seconds))
           /\ Stored(set_crossfade(Self, seconds), "crossfade_seconds", seconds)
    /\ \A preset \in PresetInputs \cup Presets : \A dev \in DevAnswers :
           /\ WrittenThrough(set_eq_preset(Self, preset, dev))
           /\ Stored(set_eq_preset(Self, preset, dev), "eq_preset", preset)

\* A collaborator has written the store since the controller's last write,
\* and a track is current (set_eq_preset starts it again).
C21_Witness ==
    /\ current_track # None
    /\ playback_state.shuffle_enabled # settings.playback.shuffle_enabled
    /\ playback_state.eq_preset # settings.playback.eq_preset

\* ---------------------------------------------------------------- C22
\* The controller's state with file f of the given kind and the encoder
\* working or not: every condition under which prepare_track may be called.
Under(f, kind, works) == [Self EXCEPT !.sources[f].kind = kind, !.encoder = works]

\* The controller's state t clock steps later.
Later(s, t) == [s EXCEPT !.clock = t]

\* The cached file at path is in the cache of s and not older than file f.
NotOlderThanSource(s, path, f) ==
    \E a \in Cached(s, path) : a.st_mtime >= s.sources[f].st_mtime

\* C22 as stated: two consecutive prepare_track(f, p) calls with a known
\* non-identity preset p and no modification of f between them return the
\* same cached path, and the second call does not synthesize a new artifact.
C22_SecondCallAlwaysFindsArtifact ==
    \A f \in Paths : \A p \in ShapedPresets : \A t \in clock .. MaxClock :
        LET first == prepare_track(Self, f, p)
            second == prepare_track(Later(first.self, t), f, p)
        IN /\ first.path # f
           /\ second.path = first.path
           /\ ~second.exported

\* C22, amended: two consecutive prepare_track(f, p) calls with a known
\* non-identity preset p and no modification of f between them, the first of
\* which returns a cached path whose artifact is not older than f, return
\* the same cached path, and the second call does not synthesize a new
\* artifact, however much later it is made.
C22_SecondCallFindsCurrentArtifact ==
    \A f \in Paths : \A p \in ShapedPresets : \A kind \in FileKinds : \A works \in BOOLEAN :
        \A t \in clock .. MaxClock :
            LET first == prepare_track(Under(f, kind, works), f, p)
                second == prepare_track(Later(first.self, t), f, p)
            IN (first.raises = "" /\ first.path # f /\ NotOlderThanSource(first.self, first.path, f)) =>
                   /\ second.raises = ""
                   /\ second.path = first.path
                   /\ ~second.exported
                   /\ second.self.eq_cache = first.self.eq_cache

\* File 1 is playing through the artifact a first call exported for it,
\* the artifact is not older than the file, and time has passed since.
C22_Witness ==
    /\ playback_state.eq_preset = "Bass Boost"
    /\ current_track # None /\ current_track.path = 1
    /\ active_audio_path = cached_file(cache_key(Self, 1, "Bass Boost"))
    /\ NotOlderThanSource(Self, active_audio_path, 1)
    /\ clock > 0

\* ---------------------------------------------------------------- C23
\* The state s after the modification time of file f has become m.
Touched(s, f, m) == [s EXCEPT !.sources[f].st_mtime = m]

\* The modification times file f may change to.
OtherTimes(f) == (0 .. MaxClock) \ {sources[f].st_mtime}

\* C23 as stated: after the modification time of f changes, the next
\* prepare_track(f, p) never returns an artifact synthesized for an earlier
\* modification time of f: it synthesizes a new artifact, and no returned
\* cached artifact is older than its source file.
C23_TouchedSourceIsAlwaysShapedAnew ==
    \A f \in Paths : \A p \in ShapedPresets : \A m \in OtherTimes(f) :
        LET next == prepare_track(Touched(Self, f, m), f, p)
        IN /\ \A a \in Cached(next.self, next.path) : a.shaped_from = m
           /\ next.exported
           /\ next.path # f => NotOlderThanSource(next.self, next.path, f)

\* C23, amended: after the modification time of f changes, the next
\* prepare_track(f, p) returns f itself or the artifact under the key of the
\* new modification time, never an artifact synthesized from f under another
\* modification time.  It synthesizes a new artifact exactly when f is
\* readable audio, the encoder works and no artifact that is not older than
\* f lies under the new key (one does when f's time is set back to one it
\* had).  An artifact it returns without synthesizing is not older than f;
\* one it has just synthesized is older only when f's time is ahead of the
\* clock.
C23_TouchedSourceIsNeverServedStale ==
    \A f \in Paths : \A p \in ShapedPresets : \A m \in OtherTimes(f) :
        \A kind \in FileKinds : \A works \in BOOLEAN :
            LET before == Touched(Under(f, kind, works), f, m)
                file == cached_file(cache_key(before, f, p))
                next == prepare_track(before, f, p)
            IN /\ next.path \in {f, file}
               /\ \A a \in Cached(next.self, next.path) : a.shaped_from = m
               /\ next.exported <=>
                      (kind = "audio" /\ works /\ ~NotOlderThanSource(before, file, f))
               /\ (next.path # f /\ ~next.exported) => NotOlderThanSource(next.self, next.path, f)
               /\ (next.path # f /\ next.exported /\ m <= clock) =>
                      NotOlderThanSource(next.self, next.path, f)

\* File 1 was shaped, its modification time changed, and it is playing
\* through the artifact the next call synthesized.
C23_Witness ==
    /\ playback_state.eq_preset = "Bass Boost"
    /\ current_track # None /\ current_track.path = 1
    /\ active_audio_path = cached_file(cache_key(Self, 1, "Bass Boost"))
    /\ \E a \in eq_cache : a.file # active_audio_path /\ a.file = cached_file(cache_key(Touched(Self, 1, a.shaped_from), 1, "Bass Boost"))
    /\ \E a \in Cached(Self, active_audio_path) : a.shaped_from = sources[1].st_mtime

\* ---------------------------------------------------------------- C24
\* C24: prepare_track never fails its caller: whatever the state of the
\* source file and of the encoder, it raises nothing, and when it has not
\* got a shaped file to give it returns the source path; so play_track lets
\* no exception escape and ends in the state playing or error.
C24_ShapingNeverFailsItsCaller ==
    /\ \A f \in Paths : \A p \in PresetInputs \cup Presets :
           LET prepared == prepare_track(Self, f, p)
           IN /\ prepared.raises = ""
              /\ (sources[f].kind # "audio" \/ ~encoder) =>
                     prepared.path = f \/ prepared.path = cached_file(cache_key(Self, f, p))
    /\ \A track \in Offered : \A dev \in DevAnswers :
           /\ RaisedNothing(play_track(Self, track, 0, FALSE, dev))
           /\ play_track(Self, track, 0, FALSE, dev).state \in {"playing", "error"}

\* ---------------------------------------------------------------- C25
\* The thread is inside a public operation of the controller: the handler
\* has been called and has not returned.
InsideOperation == \E i \in 1 .. Len(call_stack) : call_stack[i].name \in PublicOperations

\* C25: a tick handler and a public controller operation never interleave:
\* the thread is never inside a tick and inside a public operation at once
\* (no tick starts before a public operation has returned, no public
\* operation starts inside a tick), nor inside two ticks or two operations.
C25_TickAndOperationNeverInterleave ==
    \A i, j \in 1 .. Len(call_stack) :
        (i # j /\ call_stack[i].name \in PublicOperations \cup {TickHandler}) =>
            call_stack[j].name \notin PublicOperations \cup {TickHandler}

\* The timer's timeout is waiting while the thread is in a slot called by a
\* public operation that has not returned, inside the context menu's event
\* loop.
C25_Witness ==
    /\ "timeout" \in posted
    /\ InsideOperation
    /\ Len(call_stack) = 3
    /\ call_stack[3].name = "_on_track_changed"

\* ---------------------------------------------------------------- C26
\* The data hold what the call of thread t has written.
Written(t, data) ==
    IF threads[t].call = "update_playback_state"
    THEN data.playback[threads[t].key] = threads[t].flag
    ELSE data.track_positions[threads[t].path] = threads[t].position

\* The settings file is a whole document.
FileIsWhole == disk[settings_path].exists /\ disk[settings_path].complete

\* C26: when two threads call the settings store concurrently
\* (update_playback_state on different fields, or update_playback_state and
\* remember_track_position), no update is lost: from the moment a call has
\* returned, the data in memory (what every later read returns) and the
\* file on disk hold the value it wrote, whatever the other thread's call
\* is doing; and when no call is under way the file holds the data in memory.
C26_NoUpdateIsLost ==
    /\ \A t \in Threads :
           threads[t].pc = "returned" =>
               /\ Written(t, settings)
               /\ FileIsWhole
               /\ Written(t, disk[settings_path].document)
    /\ (\A t \in Threads : threads[t].pc \in {"outside", "returned"}) =>
           FileIsWhole /\ disk[settings_path].document = settings

\* Both threads' calls have returned, the worker's a remember_track_position
\* and the GUI thread's an update_playback_state, each having changed the data.
C26_Witness ==
    /\ threads["gui"].pc = "returned" /\ threads["gui"].flag
    /\ threads["worker"].pc = "returned" /\ threads["worker"].call = "remember_track_position"
    /\ threads["worker"].position > 0
    /\ settings.playback.is_muted

\* ---------------------------------------------------------------- C27
\* C27: if the process crashes at any step of a settings write, the
\* settings file on disk holds either the complete previous contents or the
\* complete new contents, never a partial or empty document: at every step
\* the file is a whole document, a step changes it only to the whole
\* document being saved, and the process started again after a crash loads
\* what the file held.
C27_SettingsFileIsAlwaysWhole ==
    /\ FileIsWhole
    /\ \A t \in Threads :
           threads[t].pc \in {"write", "replace"} =>
               disk[settings_path].document = threads[t].document
               \/ disk[temp_path].document = threads[t].document
    /\ \A t \in Threads :
           threads[t].pc = "release" => disk[settings_path].document = threads[t].document

\* The process has crashed in the middle of a write: the temporary file is
\* there, cut short.
C27_Witness ==
    /\ \A t \in Threads : threads[t].pc = "crashed"
    /\ disk[temp_path].exists /\ ~disk[temp_path].complete
    /\ disk[settings_path].document # DefaultSettings

\* ---------------------------------------------------------------- C31
\* The edges of the transport state: stopped -> playing, playing <-> paused,
\* playing/paused -> stopped, playing -> error, and play again from error.
TransportEdges ==
    {<<"stopped", "playing">>, <<"playing", "paused">>, <<"paused", "playing">>,
     <<"playing", "stopped">>, <<"paused", "stopped">>, <<"playing", "error">>,
     <<"error", "playing">>}

\* C31: the transport state only moves along the edges stopped -> playing,
\* playing <-> paused, playing/paused -> stopped and playing -> error (plus
\* a re-issued play from error); in particular the state paused is entered
\* only from playing, never from stopped or error.
C31_TransportMovesAlongEdges ==
    [][state' # state => <<state, state'>> \in TransportEdges]_vars

\* ---------------------------------------------------------------- C33
\* C33: in every reachable state, a transport state of playing or paused
\* implies that a current track is loaded (current track is not none).
C33_PlayingOrPausedHasCurrentTrack ==
    state \in {"playing", "paused"} => current_track # None

\* ---------------------------------------------------------------- C37
\* C37: while the transport state is paused, a tick changes neither the
\* current track, the current index, the queue, the history, the
\* crossfade-pending flag nor the transport state, and sends the device
\* nothing: a paused track is never advanced, restarted or cross-faded by
\* the tick.
C37_TickLeavesPausedTrackAlone ==
    state = "paused" =>
        \A dev \in DevAnswers, rnd \in RandomIndexes(Self) :
            LET r == poll(Self, dev, rnd)
            IN /\ r.current_track = current_track
               /\ r.current_index = current_index
               /\ r.queue = queue
               /\ r.history = history
               /\ r.crossfade_pending = crossfade_pending
               /\ r.state = "paused"
               /\ r.devlog = <<>>
               /\ r.mixer = mixer

\* A track with a successor in the queue is paused within the crossfade
\* time of its end, under repeat mode off: the tick reports its position
\* and does nothing else.
C37_Witness ==
    /\ state = "paused"
    /\ mixer.status = "paused"
    /\ current_track # None
    /\ Len(queue) >= 2 /\ current_index = 0
    /\ playback_state.repeat_mode = "off"
    /\ playback_state.crossfade_seconds > 0
    /\ ~crossfade_pending
    /\ poll(Self, "ok", 0).events = <<position_changed>>

\* ---------------------------------------------------------------- C38
\* C38: seek(p) and set_eq_preset(name) issued while the transport state is
\* paused leave the transport state paused: repositioning or re-shaping a
\* paused track does not resume playback.
C38_PausedStaysPaused ==
    state = "paused" =>
        \A dev \in DevAnswers :
            /\ \A p \in SeekPositions : seek(Self, p, dev).state = "paused"
            /\ \A preset \in PresetInputs : set_eq_preset(Self, preset, dev).state = "paused"

\* ---------------------------------------------------------------- C32
\* The position of the last play command sent to the device.
StartedAt(r) ==
    LET plays == SelectSeq(r.devlog, LAMBDA c : c.cmd = "play")
    IN plays[Len(plays)].start

\* The tracks of the queue and of the latest scan that are not the current
\* one (played before, or never) and the current one.
Resumable == {t \in Offered : settings.track_positions[t.path] > 0}

\* C32: if the persisted position of track t is p > 0 (a tick persisted it),
\* then play_track(t) with start position 0 and force_restart false, also
\* after stop() or after other tracks played, starts t at offset p; with
\* force_restart true it starts at offset 0 and the persisted position of t
\* is reset to 0.
C32_PlayResumesAtPersistedPosition ==
    \A t \in Resumable :
        LET p == settings.track_positions[t.path]
            resumed == play_track(Self, t, 0, FALSE, "ok")
            restarted == play_track(Self, t, 0, TRUE, "ok")
        IN /\ resumed.current_track = t
           /\ resumed.current_offset = p
           /\ StartedAt(resumed) = p
           /\ \A dev \in DevAnswers :
                  LET r == play_track(Self, t, 0, FALSE, dev)
                  IN \A i \in 1..Len(r.devlog) : r.devlog[i].cmd = "play" => r.devlog[i].start = p
           /\ restarted.current_track = t
           /\ restarted.current_offset = 0
           /\ StartedAt(restarted) = 0
           /\ restarted.settings.track_positions[t.path] = 0
           /\ restarted.disk[settings_path].document.track_positions[t.path] = 0

\* A tick persisted a position for file 1 while it played; since then the
\* other track has been started and is the current one.
C32_Witness ==
    /\ settings.track_positions[1] > 0
    /\ current_track # None /\ current_track.path = 2
    /\ state = "playing"
    /\ \E t \in Resumable : t.path = 1

\* ---------------------------------------------------------------- C34
\* The fade-out commands among the calls of a handler's value.
FadeOuts(r) == SelectSeq(r.devlog, LAMBDA c : c.cmd = "fadeout")

\* The device was told to fade the playing stream out, and no track has
\* been started since: the fade-out is still in effect on the stream.
FadedOutSinceStart == current_track # None /\ mixer.status = "playing" /\ mixer.fading

\* C34: between two consecutive track starts the device receives at most
\* one fade-out command: once a crossfade handoff has been triggered for the
\* playing track, later ticks do not trigger another one for the same
\* track, also when the handoff failed.
C34_AtMostOneFadeOutPerTrack ==
    FadedOutSinceStart =>
        \A dev \in DevAnswers, rnd \in RandomIndexes(Self) :
            FadeOuts(poll(Self, dev, rnd)) = <<>>

\* ---------------------------------------------------------------- C35
\* C35: a crossfade handoff never selects the currently playing track as
\* the track to fade into, for every shuffle setting, every repeat mode and
\* every queue length (a one-track queue with repeat mode "all" included).
C35_HandoffNeverSelectsCurrentTrack ==
    HandoffStarts =>
        \A rnd \in RandomIndexes(Self) :
            LET r == poll(Self, "ok", rnd)
            IN \A i \in 1 .. Len(r.events) : r.events[i] # track_changed(current_track)

\* ---------------------------------------------------------------- C36
\* The controller left alone after one load_playlist, shuffle off and
\* repeat mode off: the crossfade time is chosen before anything is loaded,
\* a folder is loaded into the empty controller (the one user operation),
\* and from then on only the timer and the device act.
NextRunOut ==
    \/ queue = <<>> /\ SetCrossfade
    \/ queue = <<>> /\ LoadPlaylist
    \/ Poll
    \/ DeviceAdvance
    \/ DeviceEnd

\* The timer keeps firing (QTimer, started in __init__), the playing stream
\* keeps advancing and a stream at its end or fading out does end.
SpecRunOut ==
    Init /\ [][NextRunOut]_vars /\ WF_vars(Poll) /\ WF_vars(DeviceAdvance) /\ WF_vars(DeviceEnd)

\* C36: with shuffle off, repeat mode off, a finite queue and no further
\* user operations, if ticks keep firing and every started stream
\* eventually ends, the controller eventually reaches transport state
\* stopped with no current track, whether or not crossfade is enabled and
\* whether or not some tracks fail to load.
C36_RunsOutToStopped ==
    (queue # <<>>) ~> (state = "stopped" /\ current_track = None)
====
